---- MODULE Spec2Model ----
(***************************************************************************)
(* Model of spherical_objects.py: conversion of points, bounding boxes and *)
(* polygons between pixel coordinates of a fisheye image and the unit      *)
(* sphere.                                                                 *)
(*                                                                         *)
(* Numbers.  Python's numbers (int and float) are represented in fixed     *)
(* point: the integer n stands for the value n / SCALE, and every          *)
(* arithmetic operation rounds its exact result to the nearest             *)
(* representable value, as float arithmetic does (at the float's own,      *)
(* much finer, resolution).  What the finite resolution causes in the      *)
(* program it causes here too: cos of an angle close to 0 or pi rounds to  *)
(* exactly 1 or -1.                                                        *)
(*                                                                         *)
(* Objects.  A str object is a value together with its identity: the       *)
(* field "interned" tells whether the object is the interpreter's one      *)
(* interned object of that value (what every literal is) or another,       *)
(* equal object (a str built at run time).                                 *)
(***************************************************************************)
EXTENDS Integers, Sequences, FiniteSets, TLC

\* Resolution of the fixed-point representation: n stands for n / SCALE.
SCALE == 10000

\* Largest number n such that 2 * n + 1 fits a 32-bit integer.
HALF_INT_MAX == 2^30 - 1

Abs(a) == IF a < 0 THEN -a ELSE a

Sgn(a) == IF a < 0 THEN -1 ELSE 1

Fx(n) == n * SCALE

----------------------------------------------------------------------------
(* Arithmetic of the number representation.  An intermediate value that a  *)
(* function of the source holds in a local variable is passed on as the    *)
(* parameter of the operator that models the rest of the function.         *)

\* <<q + t \div b, t % b>>
MulDivCarry(q, t, b) == <<q + t \div b, t % b>>

\* <<quotient, remainder>> of a * m by b from h, those of a * (m \div 2) by b
MulDivHalf(h, bit, a, b) ==
    MulDivCarry(2 * h[1] + bit * (a \div b), 2 * h[2] + bit * (a % b), b)

\* <<quotient, remainder>> of a * m by b, for a >= 0, m >= 0, b > 0, computed
\* without forming a * m (which may not fit an integer).
RECURSIVE MulDivMod(_, _, _)
MulDivMod(a, m, b) ==
    IF m = 0 THEN <<0, 0>>
    ELSE MulDivHalf(MulDivMod(a, m \div 2, b), m % 2, a, b)

\* <<quotient, remainder>> of a * m by b, for a >= 0, m >= 0, b > 0
QuotRem(a, m, b) ==
    IF m = 0 \/ a <= HALF_INT_MAX \div m THEN <<(a * m) \div b, (a * m) % b>>
    ELSE IF a >= m THEN MulDivMod(a, m, b)
    ELSE MulDivMod(m, a, b)

\* The quotient qr[1] rounded up if the remainder qr[2] is half of b or more.
RoundQuot(qr, b) == IF 2 * qr[2] >= b THEN qr[1] + 1 ELSE qr[1]

\* a * m / b rounded to the nearest integer (halves away from zero), b # 0.
MulDiv(a, m, b) ==
    Sgn(a) * Sgn(m) * Sgn(b) * RoundQuot(QuotRem(Abs(a), Abs(m), Abs(b)), Abs(b))

\* x * y
Mul(x, y) == MulDiv(x, y, SCALE)

\* x / y, y # 0
Div(x, y) == MulDiv(x, SCALE, y)

\* floor(sqrt(n)) for n >= 0, by bisection on lo..hi.
RECURSIVE ISqrtIn(_, _, _)
ISqrtIn(n, lo, hi) ==
    IF lo >= hi THEN lo
    ELSE IF (lo + hi + 1) \div 2 <= n \div ((lo + hi + 1) \div 2)
         THEN ISqrtIn(n, (lo + hi + 1) \div 2, hi)
         ELSE ISqrtIn(n, lo, (lo + hi + 1) \div 2 - 1)

\* s = floor(sqrt(n)) rounded up if sqrt(n) is nearer to s + 1
RoundRoot(n, s) == IF n - s * s > s THEN s + 1 ELSE s

\* sqrt(n) rounded to the nearest integer.
ISqrt(n) == RoundRoot(n, ISqrtIn(n, 0, 46340))

\* math.sqrt(x), x >= 0: sqrt(x / SCALE) * SCALE = sqrt(x * SCALE).
Sqrt(x) == ISqrt(x * SCALE)

\* math.pi
PI == (31416 * SCALE) \div 10000

\* Sum of the terms term, -term * x2 / (k (k+1)), ... of an alternating power
\* series, up to the first term that rounds to zero.
RECURSIVE Series(_, _, _)
Series(term, x2, k) ==
    IF term = 0 THEN 0
    ELSE term + Series(-MulDiv(Mul(term, x2), 1, k * (k + 1)), x2, k + 2)

\* cos and sin of an angle in 0 .. pi/2
CosSeries(x) == Series(SCALE, Mul(x, x), 1)

SinSeries(x) == Series(x, Mul(x, x), 2)

\* cos of an angle in 0 .. pi
CosFolded(v) == IF 2 * v > PI THEN -CosSeries(PI - v) ELSE CosSeries(v)

\* cos of an angle in 0 .. 2 pi
CosReduced(u) == CosFolded(IF u > PI THEN 2 * PI - u ELSE u)

\* math.cos(t): the argument is reduced to 0 .. pi/2 by the symmetries of cos.
Cos(t) == CosReduced(Abs(t) % (2 * PI))

\* sin of an angle in 0 .. pi
SinFolded(v) == IF 2 * v > PI THEN SinSeries(PI - v) ELSE SinSeries(v)

\* sin of an angle in 0 .. 2 pi
SinReduced(u) == IF u > PI THEN -SinFolded(u - PI) ELSE SinFolded(u)

\* math.sin(t)
Sin(t) == Sgn(t) * SinReduced(Abs(t) % (2 * PI))

\* Sum of the terms of the series of asin from term = c_k y^(2k+1) on.
RECURSIVE ASinSeries(_, _, _)
ASinSeries(term, y2, k) ==
    IF term = 0 THEN 0
    ELSE term + ASinSeries(MulDiv(Mul(term, y2), (2 * k + 1) * (2 * k + 1),
                                  (2 * k + 2) * (2 * k + 3)), y2, k + 1)

\* asin(y) for |y| <= 1/2 (and a little beyond)
ASin(y) == ASinSeries(y, Mul(y, y), 0)

\* sqrt(w / 2) for w >= 0, rounded once
SqrtHalf(w) == ISqrt((w * SCALE) \div 2)

\* math.acos(z) for -1 <= z <= 1, by the half-angle formulas near the ends.
ACos(z) ==
    IF 2 * z > SCALE THEN 2 * ASin(SqrtHalf(SCALE - z))
    ELSE IF 2 * z < -SCALE THEN PI - 2 * ASin(SqrtHalf(SCALE + z))
    ELSE (PI + 1) \div 2 - ASin(z)

----------------------------------------------------------------------------
(* Lens constants and the two elementary transforms.                       *)

f == 714 * SCALE + (2857 * SCALE + 5000) \div 10000

center == <<Fx(960), Fx(540)>>

D == SCALE + (82984 * SCALE + 500000) \div 1000000

\* What a call produces: a returned value, or a raised exception. len is the
\* length an exception's message carries, -1 when it carries none.
Return(v) == [exc |-> "none", msg |-> "", len |-> -1, val |-> v]

Raise(e, m, n) == [exc |-> e, msg |-> m, len |-> n, val |-> <<>>]

\* c2s_rotate with the z component left out of the returned point.
c2s_rotate_planar(x, y, r, sin_theta) ==
    Return(<<Mul(x, sin_theta), Mul(y, sin_theta)>>)

\* cartesian2sphere from "x *= sin_theta" on
c2s_rotate(x, y, r, sin_theta) ==
    Return(<<Mul(x, sin_theta), Mul(y, sin_theta), Cos(r)>>)

\* cartesian2sphere from "r *= D" on
c2s_scale(x, y, r) == c2s_rotate(x, y, Mul(r, D), Sin(Mul(r, D)))

\* cartesian2sphere from "if r != 0" on
c2s_normalize(x, y, r) ==
    c2s_scale(IF r # 0 THEN Div(x, r) ELSE x, IF r # 0 THEN Div(y, r) ELSE y, r)

\* cartesian2sphere from "r = math.sqrt(x * x + y * y)" on
c2s_radius(x, y) == c2s_normalize(x, y, Sqrt(Mul(x, x) + Mul(y, y)))

cartesian2sphere(pt) ==
    c2s_radius(Div(pt[1] - center[1], f), Div(pt[2] - center[2], f))

\* sphere2cartesian from "x = r * pt[0] * f + center[0]" on
s2c_project(pt, r) ==
    Return(<<Mul(Mul(r, pt[1]), f) + center[1],
             Mul(Mul(r, pt[2]), f) + center[2]>>)

\* The division "r /= math.sqrt(1 - pt[2] * pt[2])" by the divisor s
s2c_divide(pt, r, s) ==
    IF s = 0 THEN Raise("ZeroDivisionError", "float division by zero", -1)
    ELSE s2c_project(pt, Div(r, s))

\* s2c_unnormalize without the test pt[2] != 1 before the division.
s2c_unnormalize_unguarded(pt, r) ==
    s2c_divide(pt, r, Sqrt(SCALE - Mul(pt[3], pt[3])))

\* sphere2cartesian from "if pt[2] != 1" on
s2c_unnormalize(pt, r) ==
    IF pt[3] # SCALE THEN s2c_divide(pt, r, Sqrt(SCALE - Mul(pt[3], pt[3])))
    ELSE s2c_project(pt, r)

sphere2cartesian(pt) ==
    IF Abs(pt[3]) > SCALE THEN Raise("ValueError", "math domain error", -1)
    ELSE s2c_unnormalize(pt, Div(ACos(pt[3]), D))

\* The local r of cartesian2sphere(pt) after "r *= D"
ScaledRadiusOf(x, y) == Mul(Sqrt(Mul(x, x) + Mul(y, y)), D)

ScaledRadius(pt) ==
    ScaledRadiusOf(Div(pt[1] - center[1], f), Div(pt[2] - center[2], f))

convert_point(point) ==
    IF Len(point) = 2 THEN cartesian2sphere(point)
    ELSE IF Len(point) = 3 THEN sphere2cartesian(point)
    ELSE Raise("ValueError", "Expected point to be 2 or 3D", Len(point))

----------------------------------------------------------------------------
(* str objects, and the shape classes.                                     *)

\* The str object a literal of the source denotes.
Literal(v) == [str |-> v, interned |-> TRUE]

\* a == b and a is b, of a str object a and a literal b
StrEq(a, b) == a.str = b.str

StrIs(a, b) == a.str = b.str /\ a.interned = b.interned

FORMATS == <<Literal("xyxy"), Literal("xywh"), Literal("cxcywh")>>

POINTS_LEN == 6

MIN_POLY_LEN == 3

SPHERICAL_MIN_POLY_LEN == 3

None == [cls |-> "None"]

\* CartesianBbox without the assertion on the number of values.
CartesianBbox_any_length(points, fmt) ==
    IF ~(\E i \in 1..Len(FORMATS) : StrEq(fmt, FORMATS[i]))
    THEN Raise("AssertionError", "Invalid bbox format", -1)
    ELSE Return([cls |-> "CartesianBbox", points |-> points, fmt |-> fmt])

\* CartesianBbox(points, fmt)
CartesianBbox(points, fmt) ==
    IF ~(\E i \in 1..Len(FORMATS) : StrEq(fmt, FORMATS[i]))
    THEN Raise("AssertionError", "Invalid bbox format", -1)
    ELSE IF Len(points) # 4
    THEN Raise("AssertionError", "Cartesian bbox must have 4 values", -1)
    ELSE Return([cls |-> "CartesianBbox", points |-> points, fmt |-> fmt])

\* SphericalBbox(points)
SphericalBbox(points) ==
    IF Len(points) # POINTS_LEN
    THEN Raise("AssertionError", "Spherical bbox must have 6 values", -1)
    ELSE Return([cls |-> "SphericalBbox", points |-> points])

\* CartesianPolygon(contour)
CartesianPolygon(contour) ==
    IF ~(Len(contour) >= MIN_POLY_LEN)
    THEN Raise("AssertionError", "We need at least 3 points to form a polygon", -1)
    ELSE Return([cls |-> "CartesianPolygon", contour |-> contour,
                 num_vertex |-> Len(contour)])

\* SphericalPolygon(contour)
SphericalPolygon(contour) ==
    IF ~(Len(contour) >= SPHERICAL_MIN_POLY_LEN)
    THEN Raise("AssertionError", "We need at least 3 points to form a polygon", -1)
    ELSE Return([cls |-> "SphericalPolygon", contour |-> contour,
                 num_vertex |-> Len(contour)])

----------------------------------------------------------------------------
(* Conversions of shapes.                                                  *)

\* The quotient rounded toward zero, as int(a / b), in place of a // b.
FloorDiv_toward_zero(a, b) == Fx(Sgn(a) * (Abs(a) \div b))

\* a // b of two numbers, b > 0: the floor of the quotient, a whole number
FloorDiv(a, b) == Fx(a \div b)

\* _bbox_to_spherical from its return statement on
SphericalBboxOf(upper_left, lower_right) ==
    IF upper_left.exc # "none" THEN upper_left
    ELSE IF lower_right.exc # "none" THEN lower_right
    ELSE SphericalBbox(upper_left.val \o lower_right.val)

_bbox_to_spherical(bbox) ==
    SphericalBboxOf(convert_point(SubSeq(bbox, 1, 2)),
                    convert_point(SubSeq(bbox, 3, Len(bbox))))

xywh_to_xxyy(points) ==
    LET x == points[1]
        y == points[2]
        w == points[3]
        h == points[4]
    IN  <<x, y, x + w, y + h>>

cxcywh_to_xxyy(points) ==
    LET cx == points[1]
        cy == points[2]
        w  == FloorDiv(points[3], Fx(2))
        h  == FloorDiv(points[4], Fx(2))
    IN  <<cx - w, cy - h, cx + w, cy + h>>

\* The local bbox_xxyy of bbox_to_spherical.
bbox_xxyy(cartesian) ==
    IF StrIs(cartesian.fmt, Literal("xywh")) THEN xywh_to_xxyy(cartesian.points)
    ELSE IF StrIs(cartesian.fmt, Literal("cxcywh")) THEN cxcywh_to_xxyy(cartesian.points)
    ELSE cartesian.points

bbox_to_spherical(cartesian) == _bbox_to_spherical(bbox_xxyy(cartesian))

\* Prepend putting head after rest: the contour in reverse order.
Prepend_reversed(head, rest) ==
    IF rest.exc # "none" THEN rest ELSE Return(rest.val \o <<head.val>>)

\* The converted point head put before the converted points rest
Prepend(head, rest) ==
    IF rest.exc # "none" THEN rest ELSE Return(<<head.val>> \o rest.val)

\* The list comprehension of polygon_to_spherical over contour[i..]: the
\* converted points, or the exception of the first point that raises.
RECURSIVE spherical_contour(_, _)
RECURSIVE spherical_contour_from(_, _, _)
spherical_contour(contour, i) ==
    IF i > Len(contour) THEN Return(<<>>)
    ELSE spherical_contour_from(convert_point(contour[i]), contour, i)

spherical_contour_from(head, contour, i) ==
    IF head.exc # "none" THEN head
    ELSE Prepend(head, spherical_contour(contour, i + 1))

\* polygon_to_spherical from its return statement on
SphericalPolygonOf(converted) ==
    IF converted.exc # "none" THEN converted ELSE SphericalPolygon(converted.val)

polygon_to_spherical(cartesian) ==
    SphericalPolygonOf(spherical_contour(cartesian.contour, 1))

----------------------------------------------------------------------------
(* The state: what a caller of the module holds.                           *)

VARIABLES
    cart,   \* the Cartesian shape the caller holds, or None
    sph,    \* the spherical shape the caller holds, or None
    call,   \* the last call: operation, argument and how it ended
    ret     \* the numbers the last call returned, <<>> if it returned a shape

vars == <<cart, sph, call, ret>>

\* The record of a call of op on arg that ended as the result r; mid is the
\* intermediate point of a composed call.
CallOf(op, arg, mid, r) ==
    [op |-> op, arg |-> arg, mid |-> mid,
     exc |-> r.exc, msg |-> r.msg, len |-> r.len]

Init ==
    /\ cart = None
    /\ sph = None
    /\ call = CallOf("none", <<>>, <<>>, Return(<<>>))
    /\ ret = <<>>

----------------------------------------------------------------------------
(* Inputs.                                                                 *)

\* Largest number of components of a point passed to convert_point.
MaxDim == 4

\* Largest number of values passed to CartesianBbox.
MaxBoxLen == 5

\* Largest number of values passed to SphericalBbox.
MaxSphLen == 7

\* Largest number of vertices of a contour.
MaxVertices == 4

\* Largest magnitude of a width or height passed to the normalizations.
MaxExtent == 3

\* The list [1, 2, ..., n]
ValueList(n) == [i \in 1..n |-> Fx(i)]

\* Pixel points: the principal point, points of the 1080p image, and points
\* beyond it whose scaled radius is close to pi or larger.
PixelPoints ==
    {<<Fx(x), Fx(y)>> : x \in {0, 100, 960, 1000, 1500, 1919, 2200, 3031, 3200},
                        y \in {0, 540, 1079, 1900}}

\* Points of the unit sphere.
SpherePoints ==
    {<<0, 0, SCALE>>, <<0, 0, -SCALE>>, <<SCALE, 0, 0>>, <<0, -SCALE, 0>>,
     <<MulDiv(6, SCALE, 10), 0, MulDiv(8, SCALE, 10)>>,
     <<0, -MulDiv(8, SCALE, 10), -MulDiv(6, SCALE, 10)>>}

\* Points of every other number of components.
OtherPoints == {ValueList(n) : n \in (0..MaxDim) \ {2, 3}}

\* str objects passed as fmt: each value as the interned object and as another.
FormatObjects ==
    {[str |-> v, interned |-> b] : v \in {"xyxy", "xywh", "cxcywh", "yxyx"},
                                   b \in BOOLEAN}

\* Rectangles (x1, y1, x2, y2) of integer corners: the first the one of
\* main(), the last of odd width and height.
Rects ==
    {<<Fx(100), Fx(150), Fx(150), Fx(200)>>, <<Fx(0), Fx(0), Fx(2), Fx(4)>>,
     <<Fx(10), Fx(20), Fx(4), Fx(8)>>, <<Fx(0), Fx(0), Fx(3), Fx(5)>>}

\* The three encodings of a rectangle.
Corners(R) == R

OriginSize(R) == <<R[1], R[2], R[3] - R[1], R[4] - R[2]>>

CenterSize(R) ==
    <<(R[1] + R[3]) \div 2, (R[2] + R[4]) \div 2, R[3] - R[1], R[4] - R[2]>>

BoxValueLists ==
    {Corners(R) : R \in Rects} \cup {OriginSize(R) : R \in Rects}
        \cup {CenterSize(R) : R \in Rects}
        \cup {ValueList(n) : n \in (0..MaxBoxLen) \ {4}}

SphValueLists == {ValueList(n) : n \in 0..MaxSphLen}

\* The contour of main().
DemoContour ==
    <<<<Fx(100), Fx(100)>>, <<Fx(80), Fx(150)>>, <<Fx(50), Fx(75)>>,
      <<Fx(90), Fx(25)>>>>

\* Vertices: a pixel point, a point of the sphere, a point of 4 components.
Vertices == {<<Fx(100), Fx(100)>>, <<0, 0, SCALE>>, ValueList(4)}

Contours ==
    {DemoContour} \cup UNION {[1..n -> Vertices] : n \in 0..MaxVertices}

SphContours == {[i \in 1..n |-> <<0, 0, SCALE>>] : n \in 0..MaxVertices}

NormInputs ==
    {<<cx, cy, Fx(w), Fx(h)>> : cx \in {Fx(0), Fx(125)}, cy \in {Fx(-1), Fx(175)},
                                w \in -MaxExtent..MaxExtent,
                                h \in -MaxExtent..MaxExtent}

----------------------------------------------------------------------------
(* Calls.  An exception is not caught: the caller's run ends with it and   *)
(* the shapes it held are gone.                                            *)

\* What the caller holds of the shape held after a call that ended as r.
Kept(held, r) == IF r.exc = "none" THEN held ELSE None

NewCartesianBbox ==
    \E points \in BoxValueLists, fmt \in FormatObjects :
    \E r \in {CartesianBbox(points, fmt)} :
        /\ call' = CallOf("CartesianBbox", <<points, fmt>>, <<>>, r)
        /\ cart' = Kept(r.val, r)
        /\ sph' = None
        /\ ret' = <<>>

NewCartesianPolygon ==
    \E contour \in Contours :
    \E r \in {CartesianPolygon(contour)} :
        /\ call' = CallOf("CartesianPolygon", contour, <<>>, r)
        /\ cart' = Kept(r.val, r)
        /\ sph' = None
        /\ ret' = <<>>

NewSphericalBbox ==
    \E points \in SphValueLists :
    \E r \in {SphericalBbox(points)} :
        /\ call' = CallOf("SphericalBbox", points, <<>>, r)
        /\ cart' = Kept(cart, r)
        /\ sph' = Kept(r.val, r)
        /\ ret' = <<>>

NewSphericalPolygon ==
    \E contour \in SphContours :
    \E r \in {SphericalPolygon(contour)} :
        /\ call' = CallOf("SphericalPolygon", contour, <<>>, r)
        /\ cart' = Kept(cart, r)
        /\ sph' = Kept(r.val, r)
        /\ ret' = <<>>

CallBboxToSpherical ==
    /\ cart.cls = "CartesianBbox"
    /\ \E r \in {bbox_to_spherical(cart)} :
        /\ call' = CallOf("bbox_to_spherical", cart, bbox_xxyy(cart), r)
        /\ cart' = Kept(cart, r)
        /\ sph' = Kept(r.val, r)
        /\ ret' = <<>>

CallPolygonToSpherical ==
    /\ cart.cls = "CartesianPolygon"
    /\ \E r \in {polygon_to_spherical(cart)} :
        /\ call' = CallOf("polygon_to_spherical", cart, <<>>, r)
        /\ cart' = Kept(cart, r)
        /\ sph' = Kept(r.val, r)
        /\ ret' = <<>>

CallCartesian2Sphere ==
    \E pt \in PixelPoints :
    \E r \in {cartesian2sphere(pt)} :
        /\ call' = CallOf("cartesian2sphere", pt, <<>>, r)
        /\ ret' = r.val
        /\ UNCHANGED <<cart, sph>>

CallSphere2Cartesian ==
    \E pt \in SpherePoints :
    \E r \in {sphere2cartesian(pt)} :
        /\ call' = CallOf("sphere2cartesian", pt, <<>>, r)
        /\ ret' = r.val
        /\ cart' = Kept(cart, r)
        /\ sph' = Kept(sph, r)

CallConvertPoint ==
    \E point \in PixelPoints \cup SpherePoints \cup OtherPoints :
    \E r \in {convert_point(point)} :
        /\ call' = CallOf("convert_point", point, <<>>, r)
        /\ ret' = r.val
        /\ cart' = Kept(cart, r)
        /\ sph' = Kept(sph, r)

\* sphere2cartesian(cartesian2sphere(pt))
CallRoundTrip ==
    \E pt \in PixelPoints :
    \E there \in {cartesian2sphere(pt)} :
    \E r \in {sphere2cartesian(there.val)} :
        /\ call' = CallOf("roundtrip", pt, there.val, r)
        /\ ret' = r.val
        /\ cart' = Kept(cart, r)
        /\ sph' = Kept(sph, r)

CallXywhToXxyy ==
    \E points \in NormInputs :
        /\ call' = CallOf("xywh_to_xxyy", points, <<>>, Return(<<>>))
        /\ ret' = xywh_to_xxyy(points)
        /\ UNCHANGED <<cart, sph>>

CallCxcywhToXxyy ==
    \E points \in NormInputs :
        /\ call' = CallOf("cxcywh_to_xxyy", points, <<>>, Return(<<>>))
        /\ ret' = cxcywh_to_xxyy(points)
        /\ UNCHANGED <<cart, sph>>

----------------------------------------------------------------------------
(* Specifications.                                                         *)

\* Shapes: construction and conversion of boxes and polygons.
Next ==
    \/ NewCartesianBbox
    \/ NewCartesianPolygon
    \/ NewSphericalBbox
    \/ NewSphericalPolygon
    \/ CallBboxToSpherical
    \/ CallPolygonToSpherical

Spec == Init /\ [][Next]_vars

\* Points: the elementary transforms, their dispatch and their composition.
NextPoint ==
    \/ CallCartesian2Sphere
    \/ CallSphere2Cartesian
    \/ CallConvertPoint
    \/ CallRoundTrip

SpecPoint == Init /\ [][NextPoint]_vars

\* The normalizations of box encodings, on integers.
NextNorm ==
    \/ CallXywhToXxyy
    \/ CallCxcywhToXxyy

SpecNorm == Init /\ [][NextNorm]_vars

----------------------------------------------------------------------------
(* Properties.                                                             *)

IsPoint(p, n) == Len(p) = n

AbsDiff(a, b) == Abs(a - b)

\* The rectangle (x1, y1, x2, y2) that a box encodes in the encoding its tag
\* is equal to, the centre and the half-extents taken exactly.
EncodedRect(b) ==
    LET v == b.points IN
    IF b.fmt.str = "xywh" THEN <<v[1], v[2], v[1] + v[3], v[2] + v[4]>>
    ELSE IF b.fmt.str = "cxcywh"
    THEN <<(2 * v[1] - v[3]) \div 2, (2 * v[2] - v[4]) \div 2,
           (2 * v[1] + v[3]) \div 2, (2 * v[2] + v[4]) \div 2>>
    ELSE v

\* C1: the three encodings of one rectangle are normalized by
\* bbox_to_spherical to the same corner form (x1, y1, x2, y2), the one of the
\* rectangle, and so yield the SphericalBbox of the corners encoding.
C1_BoxFormatEquivalence ==
    call.op = "bbox_to_spherical" =>
        /\ call.exc = "none"
        /\ call.mid = EncodedRect(call.arg)
        /\ sph = _bbox_to_spherical(Corners(EncodedRect(call.arg))).val

\* C2: convert_point dispatches on the number of components alone: 2
\* components always yield a point of 3, 3 components always yield a point of
\* 2, any other number always fails with an error carrying that number and
\* returns no point.
C2_DispatchByLength ==
    call.op = "convert_point" =>
        /\ Len(call.arg) = 2 => call.exc = "none" /\ IsPoint(ret, 3)
        /\ Len(call.arg) = 3 => call.exc = "none" /\ IsPoint(ret, 2)
        /\ Len(call.arg) \notin {2, 3} =>
               /\ call.exc = "ValueError"
               /\ call.len = Len(call.arg)
               /\ ret = <<>>

\* The tolerance of the round trip at resolution 1 / SCALE, in place of the
\* 1e-6 pixels of float arithmetic: two pixels.  An error of 1 / SCALE in the
\* radius is an error of f / SCALE pixels, and the division by sqrt(1 - z^2)
\* enlarges the rounding of z as the scaled radius grows toward pi.
RT_TOL == Fx(2)

\* C3: for every pixel point p whose scaled radius lies strictly between 0
\* and pi, sphere2cartesian(cartesian2sphere(p)) returns p within tolerance.
C3_RoundTrip ==
    (call.op = "roundtrip" /\ 0 < ScaledRadius(call.arg)
                           /\ ScaledRadius(call.arg) < PI) =>
        /\ call.exc = "none"
        /\ IsPoint(ret, 2)
        /\ AbsDiff(ret[1], call.arg[1]) <= RT_TOL
        /\ AbsDiff(ret[2], call.arg[2]) <= RT_TOL

\* The length and encoding invariant of each shape class.
ValidShape(s) ==
    /\ s.cls = "CartesianBbox" =>
           Len(s.points) = 4 /\ s.fmt.str \in {"xyxy", "xywh", "cxcywh"}
    /\ s.cls = "SphericalBbox" => Len(s.points) = 6
    /\ s.cls = "CartesianPolygon" => Len(s.contour) >= 3
    /\ s.cls = "SphericalPolygon" => Len(s.contour) >= 3

\* C4: construction fails on a CartesianBbox of other than 4 values or of an
\* unrecognized encoding, on a polygon of fewer than 3 vertices and on a
\* SphericalBbox of other than 6 values; every shape that exists satisfies
\* its invariant, and a conversion runs on a valid shape only.
C4_FailFastValidation ==
    /\ ValidShape(cart) /\ ValidShape(sph)
    /\ call.op = "CartesianBbox" =>
           IF Len(call.arg[1]) = 4
                  /\ call.arg[2].str \in {"xyxy", "xywh", "cxcywh"}
           THEN call.exc = "none" /\ cart.cls = "CartesianBbox"
           ELSE call.exc = "AssertionError" /\ cart = None
    /\ call.op = "CartesianPolygon" =>
           IF Len(call.arg) >= 3
           THEN call.exc = "none" /\ cart.cls = "CartesianPolygon"
           ELSE call.exc = "AssertionError" /\ cart = None
    /\ call.op = "SphericalBbox" =>
           IF Len(call.arg) = 6
           THEN call.exc = "none" /\ sph.cls = "SphericalBbox"
           ELSE call.exc = "AssertionError" /\ sph = None
    /\ call.op = "SphericalPolygon" =>
           IF Len(call.arg) >= 3
           THEN call.exc = "none" /\ sph.cls = "SphericalPolygon"
           ELSE call.exc = "AssertionError" /\ sph = None
    /\ call.op = "bbox_to_spherical" =>
           call.arg.cls = "CartesianBbox" /\ ValidShape(call.arg)
    /\ call.op = "polygon_to_spherical" =>
           call.arg.cls = "CartesianPolygon" /\ ValidShape(call.arg)

\* A box of 3 values was passed to CartesianBbox and the construction failed.
C4_Witness ==
    /\ call.op = "CartesianBbox"
    /\ Len(call.arg[1]) = 3
    /\ call.arg[2].str = "xyxy"
    /\ call.exc = "AssertionError"
    /\ cart = None

\* C5: when polygon_to_spherical succeeds on a polygon of n >= 3 vertices,
\* the SphericalPolygon has exactly n vertices, num_vertex = n, and its i-th
\* vertex is convert_point of the i-th vertex of the input.
C5_VertexPreservation ==
    (call.op = "polygon_to_spherical" /\ call.exc = "none") =>
        /\ sph.cls = "SphericalPolygon"
        /\ call.arg.num_vertex = Len(call.arg.contour)
        /\ call.arg.num_vertex >= 3
        /\ Len(sph.contour) = call.arg.num_vertex
        /\ sph.num_vertex = call.arg.num_vertex
        /\ \A i \in 1..Len(call.arg.contour) :
               /\ convert_point(call.arg.contour[i]).exc = "none"
               /\ sph.contour[i] = convert_point(call.arg.contour[i]).val

\* The contour of main() was converted to a polygon of 4 distinct vertices.
C5_Witness ==
    /\ call.op = "polygon_to_spherical"
    /\ call.exc = "none"
    /\ call.arg.contour = DemoContour
    /\ sph.num_vertex = 4
    /\ \A i, j \in 1..4 : i # j => sph.contour[i] # sph.contour[j]

\* The whole number that is floor(w / 2): 2 * q <= w < 2 * q + 2
IsFloorHalf(q, w) ==
    /\ q % SCALE = 0
    /\ 2 * q <= w
    /\ w < 2 * q + Fx(2)

\* C6: for all integers cx, cy, w, h, cxcywh_to_xxyy returns
\* (cx - w2, cy - h2, cx + w2, cy + h2) with w2 = floor(w / 2) and
\* h2 = floor(h / 2), rounding toward negative infinity; the box is centred
\* on (cx, cy) and has width 2 * w2 and height 2 * h2.
C6_FloorHalfExtents ==
    call.op = "cxcywh_to_xxyy" =>
        LET cx == call.arg[1]
            cy == call.arg[2]
            w2 == ret[3] - cx
            h2 == ret[4] - cy
        IN  /\ IsPoint(ret, 4)
            /\ IsFloorHalf(w2, call.arg[3])
            /\ IsFloorHalf(h2, call.arg[4])
            /\ ret = <<cx - w2, cy - h2, cx + w2, cy + h2>>
            /\ ret[1] + ret[3] = 2 * cx /\ ret[2] + ret[4] = 2 * cy
            /\ ret[3] - ret[1] = 2 * w2 /\ ret[4] - ret[2] = 2 * h2

\* A box of odd negative width -3 was normalized to one of width -4.
C6_Witness ==
    /\ call.op = "cxcywh_to_xxyy"
    /\ call.arg[3] = Fx(-3)
    /\ call.arg[4] = Fx(3)
    /\ ret[3] - ret[1] = Fx(-4)
    /\ ret[4] - ret[2] = Fx(2)

\* C7 as stated: for every CartesianPolygon that can be constructed and on
\* which polygon_to_spherical returns, every vertex of the result has exactly
\* 3 components, one per input vertex.
C7_Original ==
    (call.op = "polygon_to_spherical" /\ call.exc = "none") =>
        /\ Len(sph.contour) = Len(call.arg.contour)
        /\ \A i \in 1..Len(sph.contour) : IsPoint(sph.contour[i], 3)

\* C7 as amended: for every CartesianPolygon whose vertices all have exactly
\* 2 components and on which polygon_to_spherical returns, every vertex of
\* the result has exactly 3 components, one per input vertex.
C7_VerticesAre3D ==
    (/\ call.op = "polygon_to_spherical"
     /\ call.exc = "none"
     /\ \A i \in 1..Len(call.arg.contour) : IsPoint(call.arg.contour[i], 2)) =>
        /\ Len(sph.contour) = Len(call.arg.contour)
        /\ \A i \in 1..Len(sph.contour) : IsPoint(sph.contour[i], 3)

\* A polygon of 3 pixel points was converted to 3 points of 3 components.
C7_Witness ==
    /\ call.op = "polygon_to_spherical"
    /\ call.exc = "none"
    /\ Len(call.arg.contour) = 3
    /\ \A i \in 1..3 : IsPoint(call.arg.contour[i], 2)
    /\ Len(sph.contour) = 3
    /\ \A i \in 1..3 : IsPoint(sph.contour[i], 3)

\* C8: cartesian2sphere of the principal point returns exactly (0, 0, 1), and
\* sphere2cartesian of (0, 0, 1) returns exactly the principal point; neither
\* call divides by zero.
C8_OpticalAxis ==
    /\ (call.op \in {"cartesian2sphere", "convert_point"} /\ call.arg = center) =>
           call.exc = "none" /\ ret = <<0, 0, SCALE>>
    /\ (call.op \in {"sphere2cartesian", "convert_point"}
            /\ call.arg = <<0, 0, SCALE>>) =>
           call.exc = "none" /\ ret = center
    /\ (call.op = "roundtrip" /\ call.arg = center) =>
           call.exc = "none" /\ call.mid = <<0, 0, SCALE>> /\ ret = center

\* The principal point was mapped to (0, 0, 1) and back to itself.
C8_Witness ==
    /\ call.op = "roundtrip"
    /\ call.arg = center
    /\ call.mid = <<0, 0, SCALE>>
    /\ call.exc = "none"
    /\ ret = center

\* C9: for every accepted CartesianBbox, bbox_to_spherical applies the
\* normalization of the encoding its tag is equal to, whichever str object
\* carries the tag: 'xywh' yields (x, y, x + w, y + h), 'cxcywh' the
\* centre-size corners, 'xyxy' the values unchanged.
C9_DispatchByTagValue ==
    call.op = "bbox_to_spherical" =>
        LET v == call.arg.points
            t == call.arg.fmt.str
        IN  /\ t = "xywh" => call.mid = <<v[1], v[2], v[1] + v[3], v[2] + v[4]>>
            /\ t = "cxcywh" =>
                   call.mid = <<v[1] - Fx(v[3] \div Fx(2)), v[2] - Fx(v[4] \div Fx(2)),
                                v[1] + Fx(v[3] \div Fx(2)), v[2] + Fx(v[4] \div Fx(2))>>
            /\ t = "xyxy" => call.mid = v

\* x^2 + y^2 + z^2 = 1 to the resolution of the numbers
OnUnitSphere(p) ==
    AbsDiff(Mul(p[1], p[1]) + Mul(p[2], p[2]) + Mul(p[3], p[3]), SCALE) <= 2

\* C10: sphere2cartesian never divides by zero: for every point of the unit
\* sphere, z = -1 included, the call returns a 2D point instead of raising.
C10_NoDivisionByZero ==
    (/\ call.op \in {"sphere2cartesian", "convert_point"}
     /\ Len(call.arg) = 3
     /\ OnUnitSphere(call.arg)) =>
        call.exc # "ZeroDivisionError" /\ IsPoint(ret, 2)

====
